---- MODULE Spec2Model ----
(***************************************************************************)
(* Model of scripts/run-tickets.mjs: the ticket runner.  The driver        *)
(* (main) snapshots the ticket store, then supervises one agent process    *)
(* per ticket (runAgent), stopping the batch on the first non-zero code.   *)
(***************************************************************************)
EXTENDS Integers, Sequences, FiniteSets, TLC

\* ------------------------------------------------------------------------
\* Bounds of the model
\* ------------------------------------------------------------------------
MaxData == 2      \* stdout/stderr data events per invocation
MaxFsOps == 1     \* ticket-file creations/deletions by agents per run
MaxDryRuns == 2   \* dry runs in a row with the same command line

\* ------------------------------------------------------------------------
\* Values
\* ------------------------------------------------------------------------
Null == -1        \* JS null / undefined where an exit code is expected
NaN == -999       \* result of parseInt on a non-numeric string
ENOENT == -2      \* exit code reported by 'close' after a failed spawn

PENDING_STAGES == <<"fix", "review", "implement", "plan">>

Range(s) == {s[k] : k \in 1..Len(s)}

\* ------------------------------------------------------------------------
\* Ticket store
\* ------------------------------------------------------------------------
\* File names are sequences of characters, so that the extension test and
\* the priority prefix are computed from the name.
MD == <<".", "m", "d">>
N_5a == <<"5", "-", "a">> \o MD
N_3c == <<"3", "-", "c">> \o MD
N_5b == <<"5", "-", "b">> \o MD

\* path: join(stageDir, entry); a file of the store is known by its path
path(stage, entry) == [stage |-> stage, file |-> entry]

\* ticket descriptors { file, stage, priority } as discovery builds them
T_fix5a == [stage |-> "fix", file |-> N_5a, priority |-> 5]
T_fix3c == [stage |-> "fix", file |-> N_3c, priority |-> 3]
T_impl5b == [stage |-> "implement", file |-> N_5b, priority |-> 5]
T_impl5a == [stage |-> "implement", file |-> N_5a, priority |-> 5]

\* files present when the runner starts, and the file an agent may create
InitialFiles == {path("fix", N_5a), path("fix", N_3c), path("implement", N_5b)}
AgentFiles == {path("implement", N_5a)}

\* further directory entries of the larger store: a priority tie, a
\* two-digit priority, names without prefix, without '-', with another
\* extension, and tickets of the stages plan and review
N_5d == <<"5", "-", "d">> \o MD
N_10b == <<"1", "0", "-", "b">> \o MD
N_README == <<"R", "E", "A", "D", "M", "E">> \o MD
N_5atxt == <<"5", "-", "a", ".", "t", "x", "t">>
N_7 == <<"7">> \o MD
N_4p == <<"4", "-", "p">> \o MD
N_5r == <<"5", "-", "r">> \o MD
N_notes1 == <<"n", "o", "t", "e", "s", "-", "1">> \o MD

T_fix5d == [stage |-> "fix", file |-> N_5d, priority |-> 5]
T_fix10b == [stage |-> "fix", file |-> N_10b, priority |-> 10]
T_plan4p == [stage |-> "plan", file |-> N_4p, priority |-> 4]
T_review5r == [stage |-> "review", file |-> N_5r, priority |-> 5]

StoreFiles ==
  InitialFiles \cup
  {path("fix", N_5d), path("fix", N_10b), path("fix", N_README),
   path("fix", N_5atxt), path("fix", N_7), path("plan", N_4p),
   path("review", N_5r), path("implement", N_notes1)}

\* the order in which readdir lists the entries of the stage directories
DirOrder ==
  <<path("fix", N_3c), path("fix", N_5d), path("fix", N_5a),
    path("fix", N_README), path("fix", N_10b), path("fix", N_5atxt),
    path("fix", N_7), path("implement", N_5a), path("implement", N_5b),
    path("implement", N_notes1), path("plan", N_4p), path("review", N_5r)>>

\* ------------------------------------------------------------------------
\* Strings
\* ------------------------------------------------------------------------
Digits == {"0", "1", "2", "3", "4", "5", "6", "7", "8", "9"}

DigitValue(c) ==
  CASE c = "0" -> 0 [] c = "1" -> 1 [] c = "2" -> 2 [] c = "3" -> 3
    [] c = "4" -> 4 [] c = "5" -> 5 [] c = "6" -> 6 [] c = "7" -> 7
    [] c = "8" -> 8 [] c = "9" -> 9

RECURSIVE LeadingDigits(_)
\* the longest run of decimal digits a string starts with
LeadingDigits(s) ==
  IF s # <<>> /\ Head(s) \in Digits
  THEN <<Head(s)>> \o LeadingDigits(Tail(s))
  ELSE <<>>

RECURSIVE Decimal(_)
Decimal(d) ==
  IF d = <<>> THEN 0
  ELSE 10 * Decimal(SubSeq(d, 1, Len(d) - 1)) + DigitValue(d[Len(d)])

\* JS undefined where a string is expected (String(undefined) has no digit)
Undefined == <<"undefined">>

\* parseInt(str, 10) for text without sign or leading blanks: the value of
\* the leading digits, whatever follows them; NaN when there is none
parseInt(str) ==
  LET d == LeadingDigits(str)
  IN IF d = <<>> THEN NaN ELSE Decimal(d)

\* JS `a < b` on numbers: false as soon as one side is NaN
JsLess(a, b) == a # NaN /\ b # NaN /\ a < b

\* variant: every name passes the extension test
endsWith_any(s, suffix) == TRUE

\* String.prototype.endsWith
endsWith(s, suffix) ==
  /\ Len(s) >= Len(suffix)
  /\ SubSeq(s, Len(s) - Len(suffix) + 1, Len(s)) = suffix

\* ------------------------------------------------------------------------
\* Command line
\* ------------------------------------------------------------------------
\* A --stages token "stage" or "stage:n"; pStr is the text after ':',
\* Undefined without a ':'.
Tok(stage, pStr) == [stage |-> stage, pStr |-> pStr]

\* A word of the command line, by the three ways parseArgs reads a word:
\* text for the switch and for the agent lookup, chars (its first
\* characters) for parseInt, toks for split(',') and split(':').  A word
\* without ',' and ':' is one token, itself: its toks are left empty here.
Opt(name) == [text |-> name, chars |-> <<"-">>, toks |-> <<>>]
Name(name) == [text |-> name, chars |-> <<"a">>, toks |-> <<>>]
Num(chars) == [text |-> "number", chars |-> chars, toks |-> <<>>]
List(toks) == [text |-> "list", chars |-> <<"a">>, toks |-> toks]

\* raw.split(',') with each token split at ':'
splitStages(word) ==
  IF word.toks = <<>> THEN <<Tok(word.text, Undefined)>> ELSE word.toks

\* argv[i] behind the last word, and the initial stagesRaw: null
NoWord == [text |-> "undefined", chars |-> Undefined, toks |-> <<>>]

\* values of --stages tried: absent (<<>>), one stage, two stages in either
\* pipeline order, the same stage twice, a per-stage threshold, a bad name
StagesRaws ==
  {<<>>,
   <<Tok("fix", Undefined)>>,
   <<Tok("implement", Undefined), Tok("fix", Undefined)>>,
   <<Tok("fix", Undefined), Tok("fix", Undefined)>>,
   <<Tok("fix", <<"5">>), Tok("implement", Undefined)>>,
   <<Tok("fix", Undefined), Tok("bogus", Undefined)>>}
AgentNames == {"claude", "auggie", "cursor", "gpt"}

\* the command line  [--stages <list>] --agent <name> [--dry-run]
CommandLine(stagesRaw, agent, dryRun) ==
  (IF stagesRaw = <<>> THEN <<>> ELSE <<Opt("--stages"), List(stagesRaw)>>)
  \o <<Opt("--agent"), Name(agent)>>
  \o (IF dryRun THEN <<Opt("--dry-run")>> ELSE <<>>)

DefaultStagesRaw ==
  [k \in 1..Len(PENDING_STAGES) |-> [stage |-> PENDING_STAGES[k], pStr |-> Undefined]]

\* variant: the ':n' suffix of a token is ignored
parseStages_globalOnly(raw, defaultMin) ==
  [k \in 1..Len(raw) |-> [stage |-> raw[k].stage, minPriority |-> defaultMin]]

parseStages(raw, defaultMin) ==
  [k \in 1..Len(raw) |->
     [stage |-> raw[k].stage,
      minPriority |-> IF raw[k].pStr # Undefined THEN parseInt(raw[k].pStr)
                      ELSE defaultMin]]

\* const opts = { minPriority: 3, agent: 'claude', dryRun: false, stagesRaw: null }
DefaultOpts ==
  [minPriority |-> 3, agent |-> "claude", dryRun |-> FALSE, stagesRaw |-> NoWord,
   help |-> FALSE]

RECURSIVE parseArgsLoop(_, _, _)
\* the option loop of parseArgs from word k on; argv[++i] takes the next word
\* whatever it is; --help leaves the loop at once (process.exit(0))
parseArgsLoop(av, k, o) ==
  IF k > Len(av) THEN o
  ELSE LET arg == av[k].text
           val == IF k + 1 <= Len(av) THEN av[k + 1] ELSE NoWord
       IN CASE arg = "--min-priority" ->
                 parseArgsLoop(av, k + 2, [o EXCEPT !.minPriority = parseInt(val.chars)])
            [] arg = "--agent" ->
                 parseArgsLoop(av, k + 2, [o EXCEPT !.agent = val.text])
            [] arg = "--dry-run" ->
                 parseArgsLoop(av, k + 1, [o EXCEPT !.dryRun = TRUE])
            [] arg = "--stages" ->
                 parseArgsLoop(av, k + 2, [o EXCEPT !.stagesRaw = val])
            [] arg = "--help" -> [o EXCEPT !.help = TRUE]
            [] OTHER -> parseArgsLoop(av, k + 1, o)

\* ------------------------------------------------------------------------
\* Ticket discovery and ordering
\* ------------------------------------------------------------------------
\* Array.prototype.sort: "before" holds the index pairs <<a, b>> for which
\* the comparator puts s[a] strictly before s[b] (a strict weak order).  The
\* sort is stable: elements that compare equal keep their relative order.
StableSort(s, before) ==
  LET Ahead(a) == {b \in 1..Len(s) :
                     \/ <<b, a>> \in before
                     \/ (<<a, b>> \notin before /\ b < a)}
      At(p) == CHOOSE a \in 1..Len(s) : Cardinality(Ahead(a)) = p - 1
  IN [p \in 1..Len(s) |-> s[At(p)]]

\* readdir(stageDir): the entry names; a missing directory has none
readdir(store, stage) ==
  LET In(f) == f \in store /\ f.stage = stage
      listed == SelectSeq(DirOrder, In)
  IN [k \in 1..Len(listed) |-> listed[k].file]

\* PRIORITY_PREFIX = /^(\d+)-/: the captured digits, <<>> without a match
PRIORITY_PREFIX(name) ==
  LET d == LeadingDigits(name)
  IN IF d # <<>> /\ Len(name) > Len(d) /\ name[Len(d) + 1] = "-" THEN d ELSE <<>>

parsePriority(filename) ==
  LET match == PRIORITY_PREFIX(filename)
  IN IF match # <<>> THEN parseInt(match) ELSE 0

PriorityDesc(a, b) == b.priority - a.priority < 0

discoverTickets(store, stage, minPriority) ==
  LET Keep(entry) ==
        /\ ~(~endsWith(entry, MD) \/ PRIORITY_PREFIX(entry) = <<>>)
        /\ ~JsLess(parsePriority(entry), minPriority)
      kept == SelectSeq(readdir(store, stage), Keep)
      tickets == [k \in 1..Len(kept) |->
                    [stage |-> stage, file |-> kept[k], priority |-> parsePriority(kept[k])]]
      n == Len(tickets)
  IN StableSort(tickets, {p \in (1..n) \X (1..n) : PriorityDesc(tickets[p[1]], tickets[p[2]])})

RECURSIVE DiscoverAll(_, _)
\* main: for (const { stage, minPriority } of opts.stages) push(...tickets)
DiscoverAll(store, stages) ==
  IF stages = <<>> THEN <<>>
  ELSE discoverTickets(store, Head(stages).stage, Head(stages).minPriority)
       \o DiscoverAll(store, Tail(stages))

\* new Map(opts.stages.map(({stage}, i) => [stage, i])): the last index wins
stageOrder(stages, stage) ==
  LET idx == {k \in 1..Len(stages) : stages[k].stage = stage}
  IN IF idx = {} THEN 999 ELSE CHOOSE k \in idx : \A m \in idx : m <= k

\* variant: priority is compared before the stage position
RunOrder_priorityFirst(stages, a, b) ==
  LET sa == stageOrder(stages, a.stage)
      sb == stageOrder(stages, b.stage)
  IN IF a.priority # b.priority THEN b.priority - a.priority < 0 ELSE sa - sb < 0

\* the comparator of main's sort: stage position first, then priority
RunOrder(stages, a, b) ==
  LET sa == stageOrder(stages, a.stage)
      sb == stageOrder(stages, b.stage)
  IN IF sa # sb THEN sa - sb < 0 ELSE b.priority - a.priority < 0

SortTickets(tickets, stages) ==
  LET n == Len(tickets)
  IN StableSort(tickets, {p \in (1..n) \X (1..n) : RunOrder(stages, tickets[p[1]], tickets[p[2]])})

\* ------------------------------------------------------------------------
\* Agent output and stream formatters
\* ------------------------------------------------------------------------
\* Output is a sequence of tokens: "N" is '\n', "S" a blank, "a" a character
\* of plain text, "K" the JSON text {"type":"result","is_error":false} and
\* "E" the JSON text {"type":"result","is_error":true}.
Chunks == {<<"K", "N">>, <<"E", "N">>, <<"a">>, <<"K">>, <<"S">>, <<"N">>}

\* Further tokens: "H" and "T" are the two bytes of one character of
\* UTF-8 text ("C" once decoded, "R" is U+FFFD); "A" is the JSON text
\* {"type":"assistant","message":{"content":[]}}, "B" the JSON text
\* {"type":"assistant","message":{"content":5}}, "U" the JSON text
\* {"type":"note"} and "Z" the JSON text null.
\* Chunks with a character split between two of them, with two lines in
\* one, and with the further JSON texts
LineChunks ==
  {<<"H">>, <<"T", "N">>, <<"a", "N", "a", "N">>,
   <<"A", "N">>, <<"B", "N">>, <<"U", "N">>, <<"Z", "N">>}

RECURSIVE toString(_)
\* chunk.toString(): each chunk is decoded on its own, the bytes of an
\* incomplete character become U+FFFD
toString(chunk) ==
  IF chunk = <<>> THEN <<>>
  ELSE IF Head(chunk) = "H"
       THEN IF Len(chunk) >= 2 /\ chunk[2] = "T"
            THEN <<"C">> \o toString(SubSeq(chunk, 3, Len(chunk)))
            ELSE <<"R">> \o toString(Tail(chunk))
       ELSE IF Head(chunk) = "T" THEN <<"R">> \o toString(Tail(chunk))
            ELSE <<Head(chunk)>> \o toString(Tail(chunk))

RECURSIVE split(_)
\* buf.split('\n'): the segments between newlines, always at least one
split(s) ==
  IF \A k \in 1..Len(s) : s[k] # "N" THEN <<s>>
  ELSE LET k == CHOOSE j \in 1..Len(s) : s[j] = "N" /\ \A m \in 1..(j - 1) : s[m] # "N"
       IN <<SubSeq(s, 1, k - 1)>> \o split(SubSeq(s, k + 1, Len(s)))

RECURSIVE trimEnd(_)
trimEnd(s) ==
  IF s # <<>> /\ s[Len(s)] = "S" THEN trimEnd(SubSeq(s, 1, Len(s) - 1)) ELSE s

RECURSIVE trimStart(_)
trimStart(s) ==
  IF s # <<>> /\ Head(s) = "S" THEN trimStart(Tail(s)) ELSE s

\* JSON.parse(line): the value (its type, its is_error flag, what its
\* message.content is), "null" for the literal null, or "throws" for text
\* that is no JSON; blanks around the value are ignored
JSONparse(line) ==
  LET v == trimStart(trimEnd(line))
  IN CASE v = <<"K">> -> [type |-> "result", is_error |-> FALSE, content |-> "none"]
       [] v = <<"E">> -> [type |-> "result", is_error |-> TRUE, content |-> "none"]
       [] v = <<"A">> -> [type |-> "assistant", is_error |-> FALSE, content |-> "empty"]
       [] v = <<"B">> -> [type |-> "assistant", is_error |-> FALSE, content |-> "number"]
       [] v = <<"U">> -> [type |-> "note", is_error |-> FALSE, content |-> "none"]
       [] v = <<"Z">> -> [type |-> "null", is_error |-> FALSE, content |-> "none"]
       [] OTHER -> [type |-> "throws", is_error |-> FALSE, content |-> "none"]

\* the event a formatter returns; threw says that it returned nothing and
\* threw instead
Event(text, done, exitCode) ==
  [text |-> text, done |-> done, exitCode |-> exitCode, threw |-> FALSE]

PassThrough(line) ==
  Event(IF line # <<>> /\ line[Len(line)] = "N" THEN line ELSE line \o <<"N">>,
        FALSE, Null)

\* how a try block ends: with a return, with an exception, or at its end
Return(ev) == [out |-> "return", ev |-> ev]
Throw == [out |-> "throw", ev |-> Event(<<>>, FALSE, Null)]
NoReturn == [out |-> "none", ev |-> Event(<<>>, FALSE, Null)]

\* variant: no catch block, the exception leaves the formatter
catch_rethrow(r, line) ==
  CASE r.out = "return" -> r.ev
    [] r.out = "throw" -> [r.ev EXCEPT !.threw = TRUE]
    [] OTHER -> PassThrough(line)

\* catch { /* not JSON, pass through */ } and the statements after the try
catch(r, line) ==
  IF r.out = "return" THEN r.ev ELSE PassThrough(line)

\* the try block of formatClaudeJsonLine (of its branches: assistant, result)
ClaudeTry(line) ==
  LET obj == JSONparse(line)
  IN CASE obj.type \in {"throws", "null"} -> Throw
       [] obj.type = "assistant" ->
            IF obj.content = "number" THEN Throw
            ELSE Return(Event(<<>>, FALSE, Null))
       [] obj.type = "result" ->
            Return(Event(<<IF obj.is_error THEN "[RESULT ERROR]" ELSE "[RESULT DONE]">>,
                         TRUE, IF obj.is_error THEN 1 ELSE 0))
       [] OTHER -> NoReturn

\* variant: the error flag is not carried into the exit code
formatClaudeJsonLine_noFlag(line) ==
  LET ev == catch(ClaudeTry(line), line)
  IN IF ev.done THEN [ev EXCEPT !.exitCode = Null] ELSE ev

formatClaudeJsonLine(line) == catch(ClaudeTry(line), line)

\* the try block of formatCursorJsonLine (of its branches: assistant); it
\* has no branch for a result object
CursorTry(line) ==
  LET obj == JSONparse(line)
  IN CASE obj.type \in {"throws", "null"} -> Throw
       [] obj.type = "assistant" -> Return(Event(<<"[ASSISTANT]">>, FALSE, Null))
       [] OTHER -> NoReturn

formatCursorJsonLine(line) == catch(CursorTry(line), line)

\* agents[agentName]: the adapter's stream formatter, "none" without one,
\* "unknown" when the registry has no such agent
agents(agentName) ==
  CASE agentName = "claude" -> "claude"
    [] agentName = "auggie" -> "none"
    [] agentName = "cursor" -> "cursor"
    [] OTHER -> "unknown"

formatStream(fmt, line) ==
  IF fmt = "claude" THEN formatClaudeJsonLine(line) ELSE formatCursorJsonLine(line)

\* ------------------------------------------------------------------------
\* State
\* ------------------------------------------------------------------------
VARIABLES
  argv,        \* command line: the words after the script name
  opts,        \* parseArgs result: [stages, agent, dryRun, minPriority]
  fs,          \* ticket files present under tickets/<stage>/
  fsOps,       \* ticket-file creations/deletions done by agents so far
  pc,          \* position of main()
  allTickets,  \* the snapshot, in run order
  i,           \* loop index of main (1-based)
  logs,        \* snapshot positions whose log file has been created
  instr,       \* the temporary instruction file exists
  spawned,     \* snapshot positions for which spawn() was called, in order
  pauses,      \* snapshot positions after which the 500 ms pause was taken
  results,     \* exit codes runAgent returned to main, in order
  processed,   \* the tickets main took from the list, in order
  driverExit,  \* exit code of the runner process, Null while it runs
  logsDir,     \* the directory tickets/.logs exists
  stdout,      \* what main printed with console.log, in order
  stderr,      \* what the runner printed with console.error, in order
  sup,         \* closure state of the current runAgent call
  hist,        \* history of the current invocation (not program state)
  commits,     \* snapshot positions after which the runner ran git commit
  env          \* the host: how the disk under tickets/.logs behaves, and whether
               \* the run keeps the transcript of what it wrote

vars == <<argv, opts, fs, fsOps, pc, allTickets, i, logs, instr, spawned,
          pauses, results, processed, driverExit, logsDir, stdout, stderr,
          sup, hist, commits, env>>

\* what only main writes (env is written by nobody)
mainVars == <<argv, opts, pc, allTickets, i, logs, instr, spawned, pauses,
              results, processed, driverExit, logsDir, stdout, commits, env>>

driverVars == <<mainVars, stderr>>

\* console.log of main before the ticket loop: the dry-run list, the help
\* text, the empty-snapshot notice (the banners of the loop and the agent's
\* teed output are left out)
Out(kind, tickets) == [kind |-> kind, tickets |-> tickets]

\* console.error: ticket is the file name the message carries (<<>> when it
\* carries none), log the snapshot position of the log file it names (0
\* when it names none)
Err(kind, ticket, log) == [kind |-> kind, ticket |-> ticket, log |-> log]

\* timer is the kind of the pending timeout the handle idleTimer refers to
\* ("off" when it refers to none that is pending), armedAt the number of data
\* events received when it was armed, stale the number of pending timeouts
\* no handle refers to any more
NoSup ==
  [child |-> "none", killed |-> FALSE, timer |-> "off", armedAt |-> 0, stale |-> 0,
   resultExitCode |-> Null,
   settled |-> FALSE, buf |-> <<>>, nData |-> 0, logStream |-> "none",
   written |-> <<>>,      \* what logStream accepted, in order
   paused |-> FALSE,      \* child.stdout is paused until the log drains
   needDrain |-> FALSE,   \* a write was answered with false, 'drain' is due
   drainL |-> 0,          \* listeners registered with once('drain')
   logErr |-> FALSE, finishL |-> <<>>, errorL |-> <<>>,
   promise |-> "none", promiseCode |-> Null]

NoHist ==
  [idleKill |-> FALSE,    \* the idle timer's callback signalled the live process
   graceKill |-> FALSE,   \* the grace timer's callback signalled the live process
   graceCode |-> Null,    \* resultExitCode when the grace timer fired
   flags |-> <<>>,        \* is_error of the result objects among the lines
   dones |-> <<>>,        \* exitCode of the events the formatter marked done
   rawCode |-> Null,      \* code passed to the 'close' handler
   closed |-> FALSE,      \* 'close' was handled
   spawnError |-> FALSE,  \* 'error' was handled
   console |-> <<>>,      \* what the handlers wrote to the host's stdout/stderr
   fullWrites |-> 0,      \* writes of writeOut that the log answered with false
   bytes |-> <<>>,        \* the bytes of the stdout chunks received
   lines |-> <<>>,        \* the lines passed to processLine
   faulted |-> FALSE]     \* the log stream reported an I/O error

\* ------------------------------------------------------------------------
\* runAgent: helpers of the promise body
\* ------------------------------------------------------------------------
\* one piece of output: src is "out" (normalized stdout text), "err" (a raw
\* stderr chunk) or "runner" (a message of the runner itself)
Item(src, text, code) == [src |-> src, text |-> text, code |-> code]

\* the runner never reads back what it wrote to the terminal or to the log
\* file: the transcript is followed only on a host that keeps it
Noted(q, item) == IF env.transcript THEN Append(q, item) ELSE q
NotedAll(q, items) == IF env.transcript THEN q \o items ELSE q

\* logStream.end(chunk): a second end() is a write after end
logEnd(s, item) ==
  IF s.logStream = "open"
  THEN [s EXCEPT !.logStream = "ending", !.written = Noted(@, item)]
  ELSE IF s.logStream = "ending" THEN [s EXCEPT !.logErr = TRUE]
  ELSE s

\* logStream.write(chunk): the chunk is taken (buffered in memory when the
\* disk is behind) unless the stream was ended or destroyed
logWrite(s, item) ==
  IF s.logStream = "open" THEN [s EXCEPT !.written = Noted(@, item)]
  ELSE IF s.logStream = "ending" THEN [s EXCEPT !.logErr = TRUE]
  ELSE s

\* variant: the listener is registered for 'finish' only
onceBoth_finishOnly(s, l) == [s EXCEPT !.finishL = Append(@, l)]

\* logStream.once('finish', l); logStream.once('error', l)
onceBoth(s, l) ==
  [s EXCEPT !.finishL = Append(@, l), !.errorL = Append(@, l)]

\* clearTimeout(idleTimer): a no-op for a timeout that has fired
clearTimeout(s) == [s EXCEPT !.timer = "off"]

\* idleTimer = setTimeout(callback, ms): a timeout the handle still referred
\* to stays pending without a handle
setTimeout(s, kind) ==
  [s EXCEPT !.stale = IF s.timer # "off" THEN @ + 1 ELSE @,
            !.timer = kind,
            !.armedAt = s.nData]

\* variant: the promise is resolved at once, without waiting for the log
settle_noWait(s, code) ==
  IF s.settled THEN s
  ELSE [logEnd(clearTimeout([s EXCEPT !.settled = TRUE]),
               Item("runner", <<"Agent exited with code">>, code))
          EXCEPT !.promise = "resolved", !.promiseCode = code]

settle(s, code) ==
  IF s.settled THEN s
  ELSE onceBoth(logEnd(clearTimeout([s EXCEPT !.settled = TRUE]),
                       Item("runner", <<"Agent exited with code">>, code)),
                [kind |-> "resolved", code |-> code])

\* variant: the pending timeout is not cleared before the new one is set
resetIdleTimer_noClear(s) == setTimeout(s, "idle")

resetIdleTimer(s) ==
  setTimeout(IF s.timer # "off" THEN clearTimeout(s) ELSE s, "idle")

\* variant: no signal is sent
kill_noSignal(s) == s

\* child.kill(): a signal reaches only a live process
kill(s) == IF s.child = "alive" THEN [s EXCEPT !.killed = TRUE] ELSE s

\* variant: || instead of ??, a reported 0 counts as no code
LatchCode_zeroAsNone(result) ==
  IF result.exitCode \in {Null, 0} THEN Null ELSE result.exitCode

\* resultExitCode = result.exitCode ?? 0
LatchCode(result) == IF result.exitCode # Null THEN result.exitCode ELSE 0

\* variant: the raw exit code is preferred to the latched one
CloseCode_rawFirst(res, code) ==
  IF code # Null THEN code ELSE IF res # Null THEN res ELSE 1

\* settle(resultExitCode ?? code ?? 1)
CloseCode(res, code) ==
  IF res # Null THEN res ELSE IF code # Null THEN code ELSE 1

\* history: the line passed, and its flag when it is a result object
noteLine(line, h) ==
  LET obj == JSONparse(line)
      h1 == [h EXCEPT !.lines = Noted(@, line)]
  IN IF obj.type = "result" THEN [h1 EXCEPT !.flags = Append(@, obj.is_error)] ELSE h1

\* child.stdout.pause(), child.stdout.resume(): a flag, not a count
pause(s) == [s EXCEPT !.paused = TRUE]
resume(s) == [s EXCEPT !.paused = FALSE]

\* logStream.write answered false: the buffer is over its mark until 'drain'
saturate(s) == [s EXCEPT !.needDrain = TRUE]

\* variant: a text the log cannot take at once is dropped
writeOut_dropWhenFull(text, sh) ==
  LET item == Item("out", text, Null)
      h1 == [sh.h EXCEPT !.console = Noted(@, item)]
  IN IF sh.full
     THEN [s |-> [pause(saturate(sh.s)) EXCEPT !.drainL = @ + 1],
           h |-> [h1 EXCEPT !.fullWrites = @ + 1], full |-> sh.full]
     ELSE [s |-> logWrite(sh.s, item), h |-> h1, full |-> sh.full]

\* variant: stdout is paused but no listener for 'drain' is registered
writeOut_noListener(text, sh) ==
  LET item == Item("out", text, Null)
      h1 == [sh.h EXCEPT !.console = Noted(@, item)]
      s1 == logWrite(sh.s, item)
  IN IF sh.full
     THEN [s |-> pause(saturate(s1)),
           h |-> [h1 EXCEPT !.fullWrites = @ + 1], full |-> sh.full]
     ELSE [s |-> s1, h |-> h1, full |-> sh.full]

\* writeOut(text); sh.s is the closure state, sh.h the invocation's history,
\* sh.full says whether the log's buffer is saturated during this handler
\* (logStream.write returns false)
writeOut(text, sh) ==
  LET item == Item("out", text, Null)
      h1 == [sh.h EXCEPT !.console = Noted(@, item)]
      s1 == logWrite(sh.s, item)
  IN IF sh.full
     THEN [s |-> [pause(saturate(s1)) EXCEPT !.drainL = @ + 1],
           h |-> [h1 EXCEPT !.fullWrites = @ + 1], full |-> sh.full]
     ELSE [s |-> s1, h |-> h1, full |-> sh.full]

\* processLine(line)
processLine(fmt, line, sh) ==
  LET sh0 == [sh EXCEPT !.h = noteLine(line, sh.h)]
  IN IF fmt = "none" THEN writeOut(line \o <<"N">>, sh0)
     ELSE LET result == formatStream(fmt, line)
              sh1 == IF result.text # <<>> THEN writeOut(result.text, sh0) ELSE sh0
          IN IF result.done
             THEN [sh1 EXCEPT
                     !.s = setTimeout(
                             clearTimeout([sh1.s EXCEPT !.resultExitCode = LatchCode(result)]),
                             "grace"),
                     !.h = [sh1.h EXCEPT !.dones = Append(@, result.exitCode)]]
             ELSE sh1

RECURSIVE processLines(_, _, _)
processLines(fmt, lines, sh) ==
  IF lines = <<>> THEN sh
  ELSE processLines(fmt, Tail(lines), processLine(fmt, Head(lines), sh))

\* variant: the rejection is registered for 'finish' only
onSpawnError_finishOnly(s) ==
  [logEnd(s, Item("runner", <<"Agent spawn error">>, Null))
     EXCEPT !.finishL = Append(@, [kind |-> "rejected", code |-> Null])]

\* the 'error' handler of the child: end the log, reject once it is flushed
onSpawnError(s) ==
  onceBoth(logEnd(s, Item("runner", <<"Agent spawn error">>, Null)),
           [kind |-> "rejected", code |-> Null])

RECURSIVE fire(_, _)
\* call the listeners in registration order; a promise keeps its first outcome
fire(s, listeners) ==
  IF listeners = <<>> THEN s
  ELSE LET l == Head(listeners)
           s1 == IF s.promise = "pending"
                 THEN [s EXCEPT !.promise = l.kind, !.promiseCode = l.code]
                 ELSE s
       IN fire(s1, Tail(listeners))

\* ------------------------------------------------------------------------
\* main: the driver
\* ------------------------------------------------------------------------
\* command lines tried beside the regular ones: --help alone, before and
\* after a bad stage name; a threshold that is no number, given for one
\* stage (a real run) or globally; an empty threshold; --min-priority,
\* --agent and --stages as the last word, their value missing; a word
\* parseArgs has no case for
ExtraArgvs ==
  {<<Opt("--help")>>,
   <<Opt("--help"), Opt("--stages"), List(<<Tok("bogus", Undefined)>>)>>,
   <<Opt("--stages"), List(<<Tok("bogus", Undefined)>>), Opt("--help")>>,
   <<Opt("--agent"), Name("auggie"), Opt("--stages"), List(<<Tok("fix", <<"x">>)>>)>>,
   <<Opt("--dry-run"), Opt("--min-priority"), Num(<<"x">>)>>,
   <<Opt("--dry-run"), Opt("--stages"), List(<<Tok("fix", <<>>)>>)>>,
   <<Opt("--dry-run"), Opt("--min-priority")>>,
   <<Opt("--dry-run"), Opt("--agent")>>,
   <<Opt("--agent")>>,
   <<Opt("--dry-run"), Opt("--stages")>>,
   <<Opt("--no-commit"), Opt("--agent"), Name("auggie"),
     Opt("--stages"), List(<<Tok("fix", Undefined)>>)>>}

Argvs ==
  {CommandLine(s, a, d) : s \in StagesRaws, a \in AgentNames, d \in BOOLEAN}
  \cup ExtraArgvs

\* the options before parseArgs has returned
NoOpts == [stages |-> <<>>, agent |-> "", dryRun |-> FALSE, minPriority |-> 3]

\* the runner process has started, nothing has run yet
Start ==
  /\ opts = NoOpts
  /\ fsOps = 0
  /\ pc = "parse"
  /\ allTickets = <<>>
  /\ i = 0
  /\ logs = {}
  /\ instr = FALSE
  /\ spawned = <<>>
  /\ pauses = <<>>
  /\ results = <<>>
  /\ processed = <<>>
  /\ driverExit = Null
  /\ logsDir = FALSE
  /\ stdout = <<>>
  /\ stderr = <<>>
  /\ sup = NoSup
  /\ hist = NoHist
  /\ commits = <<>>

\* a host whose disk keeps up with the log and lets files be removed
Benign == [slowDisk |-> FALSE, unlinkFails |-> FALSE, transcript |-> FALSE]

Init ==
  /\ argv \in Argvs
  /\ fs \in SUBSET InitialFiles
  /\ env = Benign
  /\ Start

\* process.exit(code), or main returning with nothing left to run
Exit(code) == pc' = "exited" /\ driverExit' = code

\* variant: only the code 1 is taken for a failure
ShouldStop_only1(exitCode) == exitCode = 1

\* if (exitCode !== 0) ... process.exit(exitCode)
ShouldStop(exitCode) == exitCode # 0

\* variant: off by one, the pause is also taken after the last ticket
NeedsPause_always(idx, n) == idx <= n

\* if (i < allTickets.length - 1) await pause     (i is 1-based here)
NeedsPause(idx, n) == idx < n

\* variant: every stage name is let through
StageKnown_any(stage) == TRUE

\* PENDING_STAGES.includes(stage)
StageKnown(stage) == stage \in Range(PENDING_STAGES)

ParseArgs ==
  /\ pc = "parse"
  /\ LET o == parseArgsLoop(argv, 1, DefaultOpts)
         stagesRaw == IF o.stagesRaw = NoWord THEN DefaultStagesRaw
                      ELSE splitStages(o.stagesRaw)
         stages == parseStages(stagesRaw, o.minPriority)
     IN IF o.help
        THEN /\ stdout' = Append(stdout, Out("help", <<>>))
             /\ Exit(0)
             /\ UNCHANGED <<opts, stderr>>
        ELSE IF \E k \in 1..Len(stages) : ~StageKnown(stages[k].stage)
        THEN /\ stderr' = Append(stderr, Err("Unknown stage", <<>>, 0))
             /\ Exit(1)
             /\ UNCHANGED <<opts, stdout>>
        ELSE /\ opts' = [stages |-> stages, agent |-> o.agent,
                         dryRun |-> o.dryRun, minPriority |-> o.minPriority]
             /\ pc' = "discover"
             /\ UNCHANGED <<driverExit, stdout, stderr>>
  /\ UNCHANGED <<commits, env, argv, fs, fsOps, allTickets, i, logs, instr, spawned, pauses,
                 results, processed, logsDir, sup, hist>>

\* variant: the dry-run flag is not looked at
IsDryRun_never(o) == FALSE

\* if (opts.dryRun)
IsDryRun(o) == o.dryRun

\* mkdir(logsDir, { recursive: true }): the directory exists afterwards
ensureLogsDir(exists) == TRUE

\* the snapshot: discovery of every selected stage, then the global sort; a
\* dry run prints the list and returns, a real run makes the logs directory
Snapshot ==
  /\ pc = "discover"
  /\ LET found == DiscoverAll(fs, opts.stages)
         sorted == SortTickets(found, opts.stages)
     IN IF found = <<>>
        THEN /\ stdout' = Append(stdout, Out("No tickets found", <<>>))
             /\ Exit(0)
             /\ UNCHANGED <<allTickets, i, logsDir>>
        ELSE /\ allTickets' = sorted
             /\ IF IsDryRun(opts)
                THEN /\ stdout' = Append(stdout, Out("would be processed", sorted))
                     /\ Exit(0)
                     /\ UNCHANGED <<i, logsDir>>
                ELSE /\ logsDir' = ensureLogsDir(logsDir)
                     /\ pc' = "ticket"
                     /\ i' = 1
                     /\ UNCHANGED <<driverExit, stdout>>
  /\ UNCHANGED <<commits, env, argv, opts, fs, fsOps, logs, instr, spawned, pauses, results,
                 processed, stderr, sup, hist>>

\* variant: the store is listed again at every iteration
TicketAt_rescan(tickets, idx, store, stages) ==
  LET live == SortTickets(DiscoverAll(store, stages), stages)
  IN IF idx <= Len(live) THEN live[idx] ELSE tickets[idx]

\* const ticket = allTickets[i]: the descriptor comes from the snapshot, the
\* store is not read again
TicketAt(tickets, idx, store, stages) == tickets[idx]

\* top of the loop body: take the ticket, await writeFile(currentLog, header)
StartTicket ==
  /\ pc = "ticket"
  /\ processed' = Append(processed, TicketAt(allTickets, i, fs, opts.stages))
  /\ logs' = logs \cup {i}
  /\ pc' = "prompt"
  /\ UNCHANGED <<commits, env, argv, opts, fs, fsOps, allTickets, i, instr, spawned, pauses,
                 results, driverExit, logsDir, stdout, stderr, sup, hist>>

\* await buildPrompt(ticket): readFile(ticket.path) throws when the file is gone
BuildPrompt ==
  /\ pc = "prompt"
  /\ LET ticket == processed[Len(processed)]
     IN pc' = IF path(ticket.stage, ticket.file) \in fs THEN "runAgent" ELSE "catch"
  /\ UNCHANGED <<commits, env, argv, opts, fs, fsOps, allTickets, i, logs, instr, spawned,
                 pauses, results, processed, driverExit, logsDir, stdout, stderr,
                 sup, hist>>

\* runAgent up to the first await of the promise: adapter lookup, instruction
\* file, log stream, spawn, resetIdleTimer()
RunAgent ==
  /\ pc = "runAgent"
  /\ IF agents(opts.agent) = "unknown"
     THEN /\ stderr' = Append(stderr, Err("Unknown agent", <<>>, 0))
          /\ Exit(1)
          /\ UNCHANGED <<instr, spawned, sup, hist>>
     ELSE /\ instr' = TRUE
          /\ \E ok \in BOOLEAN :
               sup' = resetIdleTimer(
                        [NoSup EXCEPT !.child = IF ok THEN "alive" ELSE "spawnFailed",
                                      !.logStream = "open",
                                      !.promise = "pending"])
          /\ hist' = NoHist
          /\ spawned' = Append(spawned, i)
          /\ pc' = "await"
          /\ UNCHANGED <<driverExit, stderr>>
  /\ UNCHANGED <<commits, env, argv, opts, fs, fsOps, allTickets, i, logs, pauses, results,
                 processed, logsDir, stdout>>

\* variant: the instruction file is removed only after a resolved promise
unlink_onSuccess(exists, fails, outcome) ==
  IF fails \/ outcome # "resolved" THEN exists ELSE FALSE

\* await unlink(instructionFile).catch(() => {}): the file is gone unless
\* the host refuses the removal
unlink(exists, fails, outcome) == IF fails THEN exists ELSE FALSE

\* finally { await unlink(instructionFile) } once the promise has settled
Finally ==
  /\ pc = "await"
  /\ sup.promise \in {"resolved", "rejected"}
  /\ instr' = unlink(instr, env.unlinkFails, sup.promise)
  /\ IF sup.promise = "resolved"
     THEN pc' = "check" /\ results' = Append(results, sup.promiseCode)
     ELSE pc' = "catch" /\ UNCHANGED results
  /\ UNCHANGED <<commits, env, argv, opts, fs, fsOps, allTickets, i, logs, spawned, pauses,
                 processed, driverExit, logsDir, stdout, stderr, sup, hist>>

\* the exit-code test of the loop body: a non-zero code prints the stop
\* message (file name and log path) and exits; when main goes on, the closure
\* of the settled runAgent call is dropped (the process it supervised stays
\* as it is)
\* variant: every stop exits with code 1
StopCode_one(exitCode) == 1

\* process.exit(exitCode)
StopCode(exitCode) == exitCode

Check ==
  /\ pc = "check"
  /\ LET exitCode == results[Len(results)]
         ticket == processed[Len(processed)]
     IN IF ShouldStop(exitCode)
        THEN /\ stderr' = Append(stderr, Err("Agent exited with code", ticket.file, i))
             /\ Exit(StopCode(exitCode))
             /\ UNCHANGED sup
        ELSE /\ sup' = [NoSup EXCEPT !.child = sup.child]
             /\ IF NeedsPause(i, Len(allTickets))
                THEN pc' = "pause" /\ UNCHANGED driverExit
                ELSE Exit(0)
             /\ UNCHANGED stderr
  /\ UNCHANGED <<commits, env, argv, opts, fs, fsOps, allTickets, i, logs, instr, spawned,
                 pauses, results, processed, logsDir, stdout, hist>>

\* await new Promise(r => setTimeout(r, 500)); i++   (the history of the
\* finished invocation ends here)
Pause ==
  /\ pc = "pause"
  /\ pauses' = Append(pauses, i)
  /\ i' = i + 1
  /\ pc' = "ticket"
  /\ hist' = NoHist
  /\ UNCHANGED <<commits, env, argv, opts, fs, fsOps, allTickets, logs, instr, spawned,
                 results, processed, driverExit, logsDir, stdout, stderr, sup>>

\* main().catch(err => { console.error('Ticket runner failed:', err);
\* process.exit(1) }): the message carries the error object only
Catch ==
  /\ pc = "catch"
  /\ stderr' = Append(stderr, Err("Ticket runner failed", <<>>, 0))
  /\ Exit(1)
  /\ UNCHANGED <<commits, env, argv, opts, fs, fsOps, allTickets, i, logs, instr, spawned,
                 pauses, results, processed, logsDir, stdout, sup, hist>>

\* ------------------------------------------------------------------------
\* runAgent: the event handlers of one invocation
\* ------------------------------------------------------------------------
Running == pc # "exited"
Fmt == agents(opts.agent)

\* exit codes a process can report on 'close'; Null when a signal ended it
RawCodes == {0, 2, Null}

\* whether logStream.write can return false: only on a host whose disk is
\* behind the writes
Saturated == IF env.slowDisk THEN BOOLEAN ELSE {FALSE}

\* child.stdout.on('data', chunk); a paused stream emits no 'data'
StdoutData(chunk) ==
  /\ Running
  /\ sup.child = "alive"
  /\ ~sup.paused
  /\ sup.nData < MaxData
  /\ \E full \in Saturated :
     LET s0 == [sup EXCEPT !.nData = @ + 1]
         s1 == IF s0.resultExitCode = Null THEN resetIdleTimer(s0) ELSE s0
         lines == split(s1.buf \o toString(chunk))
         s2 == [s1 EXCEPT !.buf = lines[Len(lines)]]
         sh == processLines(Fmt, SubSeq(lines, 1, Len(lines) - 1),
                            [s |-> s2, h |-> [hist EXCEPT !.bytes = NotedAll(@, chunk)],
                             full |-> full])
     IN sup' = sh.s /\ hist' = sh.h
  /\ UNCHANGED <<driverVars, fs, fsOps>>

\* child.stderr.on('data', chunk): what logStream.write answers is not
\* looked at
StderrData ==
  /\ Running
  /\ sup.child = "alive"
  /\ sup.nData < MaxData
  /\ \E full \in Saturated :
     LET s0 == [sup EXCEPT !.nData = @ + 1]
         s1 == IF s0.resultExitCode = Null THEN resetIdleTimer(s0) ELSE s0
         item == Item("err", <<"e">>, Null)
         s2 == logWrite(s1, item)
     IN /\ sup' = IF full THEN saturate(s2) ELSE s2
        /\ hist' = [hist EXCEPT !.console = Noted(@, item)]
  /\ UNCHANGED <<driverVars, fs, fsOps>>

\* the idle timer's callback
IdleFire ==
  /\ Running
  /\ sup.timer = "idle"
  /\ LET item == Item("runner", <<"Agent idle">>, Null)
     IN /\ sup' = kill(logWrite([sup EXCEPT !.timer = "off"], item))
        /\ hist' = [hist EXCEPT !.idleKill = @ \/ sup.child = "alive",
                                !.console = Noted(@, item)]
  /\ UNCHANGED <<driverVars, fs, fsOps>>

\* the grace timer's callback
GraceFire ==
  /\ Running
  /\ sup.timer = "grace"
  /\ LET item == Item("runner", <<"Agent sent result but didn't exit">>, Null)
         h1 == [hist EXCEPT !.console = Noted(@, item)]
     IN /\ sup' = kill(logWrite([sup EXCEPT !.timer = "off"], item))
        /\ hist' = IF sup.child = "alive"
                   THEN [h1 EXCEPT !.graceKill = TRUE, !.graceCode = sup.resultExitCode]
                   ELSE h1
  /\ UNCHANGED <<driverVars, fs, fsOps>>

\* child.on('error'): the spawn failed
ChildError ==
  /\ Running
  /\ sup.child = "spawnFailed"
  /\ stderr' = Append(stderr, Err("Failed to spawn", <<>>, 0))
  /\ sup' = onSpawnError([sup EXCEPT !.child = "errored"])
  /\ hist' = [hist EXCEPT !.spawnError = TRUE]
  /\ UNCHANGED <<mainVars, fs, fsOps>>

\* child.on('close', code); after a failed spawn 'close' follows 'error';
\* the end of a paused stdout is not read, so 'close' waits for the resume
ChildClose(code) ==
  /\ Running
  /\ \/ sup.child = "alive" /\ code \in RawCodes
     \/ sup.child = "errored" /\ code = ENOENT
  /\ ~sup.paused
  /\ \E full \in Saturated :
     LET sh == IF sup.buf # <<>>
               THEN processLine(Fmt, trimEnd(sup.buf), [s |-> sup, h |-> hist, full |-> full])
               ELSE [s |-> sup, h |-> hist, full |-> full]
         s1 == [sh.s EXCEPT !.child = "closed"]
     IN /\ sup' = settle(s1, CloseCode(s1.resultExitCode, code))
        /\ hist' = [sh.h EXCEPT !.rawCode = code, !.closed = TRUE]
  /\ UNCHANGED <<driverVars, fs, fsOps>>

\* logStream emits 'finish'
LogFinish ==
  /\ Running
  /\ sup.logStream = "ending"
  /\ sup' = fire([sup EXCEPT !.logStream = "finished", !.finishL = <<>>], sup.finishL)
  /\ UNCHANGED <<driverVars, fs, fsOps, hist>>

\* logStream emits 'error' (a write after end)
LogError ==
  /\ Running
  /\ sup.logErr
  /\ sup' = fire([sup EXCEPT !.logStream = "destroyed", !.logErr = FALSE,
                             !.errorL = <<>>], sup.errorL)
  /\ UNCHANGED <<driverVars, fs, fsOps, hist>>

\* logStream emits 'drain' (never once end() was called): every listener
\* writeOut registered resumes stdout
Drain ==
  /\ Running
  /\ sup.needDrain
  /\ sup.logStream = "open"
  /\ LET s1 == [sup EXCEPT !.needDrain = FALSE, !.drainL = 0]
     IN sup' = IF sup.drainL > 0 THEN resume(s1) ELSE s1
  /\ UNCHANGED <<driverVars, fs, fsOps, hist>>

\* logStream emits 'error' for an I/O error of the host (disk full, the
\* file cannot be opened): the stream is destroyed; without a listener for
\* 'error' the event is thrown as an uncaught exception and node exits with 1
LogFault ==
  /\ Running
  /\ sup.logStream \in {"open", "ending"}
  /\ hist' = [hist EXCEPT !.faulted = TRUE]
  /\ IF sup.errorL = <<>>
     THEN /\ sup' = [sup EXCEPT !.logStream = "destroyed"]
          /\ stderr' = Append(stderr, Err("Uncaught exception", <<>>, 0))
          /\ Exit(1)
     ELSE /\ sup' = fire([sup EXCEPT !.logStream = "destroyed", !.logErr = FALSE,
                                     !.errorL = <<>>], sup.errorL)
          /\ UNCHANGED <<stderr, pc, driverExit>>
  /\ UNCHANGED <<commits, env, argv, opts, fs, fsOps, allTickets, i, logs, instr,
                 spawned, pauses, results, processed, logsDir, stdout>>

\* the agent creates a next-stage ticket file
AgentCreate(f) ==
  /\ Running
  /\ sup.child = "alive"
  /\ fsOps < MaxFsOps
  /\ f \notin fs
  /\ fs' = fs \cup {f}
  /\ fsOps' = fsOps + 1
  /\ UNCHANGED <<driverVars, sup, hist>>

\* the agent deletes a ticket file
AgentDelete(f) ==
  /\ Running
  /\ sup.child = "alive"
  /\ fsOps < MaxFsOps
  /\ f \in fs
  /\ fs' = fs \ {f}
  /\ fsOps' = fsOps + 1
  /\ UNCHANGED <<driverVars, sup, hist>>

Next ==
  \/ ParseArgs
  \/ Snapshot
  \/ StartTicket
  \/ BuildPrompt
  \/ RunAgent
  \/ Finally
  \/ Check
  \/ Pause
  \/ Catch
  \/ \E chunk \in Chunks : StdoutData(chunk)
  \/ StderrData
  \/ IdleFire
  \/ GraceFire
  \/ ChildError
  \/ \E code \in RawCodes \cup {ENOENT} : ChildClose(code)
  \/ LogFinish
  \/ LogError
  \/ \E f \in AgentFiles : AgentCreate(f)
  \/ \E f \in InitialFiles \cup AgentFiles : AgentDelete(f)

Spec == Init /\ [][Next]_vars

\* ------------------------------------------------------------------------
\* Repeated dry runs
\* ------------------------------------------------------------------------
\* after a dry run has ended the user starts the runner again with the same
\* command line: a new process, the files and the terminal as they are
DryRunAgain ==
  /\ pc = "exited"
  /\ opts.dryRun
  /\ Len(stdout) < MaxDryRuns
  /\ pc' = "parse"
  /\ opts' = NoOpts
  /\ allTickets' = <<>>
  /\ driverExit' = Null
  /\ UNCHANGED <<commits, env, argv, fs, fsOps, i, logs, instr, spawned, pauses, results,
                 processed, logsDir, stdout, stderr, sup, hist>>

NextRepeat ==
  \/ Next
  \/ DryRunAgain

SpecRepeat == Init /\ [][NextRepeat]_vars

\* ------------------------------------------------------------------------
\* The transcript: what reaches the terminal and the log file
\* ------------------------------------------------------------------------
\* one stage, an agent with a formatter and one without
TeeArgvs ==
  {CommandLine(<<Tok("fix", Undefined)>>, a, FALSE) : a \in {"claude", "auggie"}}

\* the tickets of that stage
FixFiles == {path("fix", N_5a), path("fix", N_3c)}

\* hosts that keep the transcript, with a disk that keeps up or falls behind
InitTee ==
  /\ argv \in TeeArgvs
  /\ fs \in SUBSET FixFiles
  /\ env \in {[slowDisk |-> d, unlinkFails |-> FALSE, transcript |-> TRUE] : d \in BOOLEAN}
  /\ Start

NextTee ==
  \/ Next
  \/ Drain

SpecTee == InitTee /\ [][NextTee]_vars

\* ------------------------------------------------------------------------
\* Lines: characters split between chunks, several lines in one chunk,
\* JSON texts of every kind, with each of the three adapters
\* ------------------------------------------------------------------------
LinesArgvs ==
  {CommandLine(<<Tok("fix", Undefined)>>, a, FALSE) : a \in {"claude", "auggie", "cursor"}}

InitLines ==
  /\ argv \in LinesArgvs
  /\ fs = FixFiles
  /\ env \in {[slowDisk |-> d, unlinkFails |-> FALSE, transcript |-> TRUE] : d \in BOOLEAN}
  /\ Start

NextLines ==
  \/ Next
  \/ Drain
  \/ \E chunk \in LineChunks : StdoutData(chunk)

SpecLines == InitLines /\ [][NextLines]_vars

\* ------------------------------------------------------------------------
\* Progress: what the event loop and the host are bound to do
\* ------------------------------------------------------------------------
InitLive ==
  /\ argv \in TeeArgvs
  /\ fs = FixFiles
  /\ env \in {[slowDisk |-> d, unlinkFails |-> FALSE, transcript |-> FALSE] : d \in BOOLEAN}
  /\ Start

\* the statements of the ticket loop and of runAgent outside the handlers:
\* each runs as soon as the one before it has returned or its promise has
\* settled
LoopStep ==
  \/ StartTicket
  \/ BuildPrompt
  \/ RunAgent
  \/ Finally
  \/ Check
  \/ Pause
  \/ Catch

\* 'close' of a process that was signalled or whose spawn failed: the host
\* ends a process that got SIGTERM and closes its pipes
KilledClose ==
  \E code \in RawCodes \cup {ENOENT} :
    /\ sup.killed \/ sup.child = "errored"
    /\ ChildClose(code)

NextLive ==
  \/ ParseArgs
  \/ Snapshot
  \/ LoopStep
  \/ \E chunk \in Chunks : StdoutData(chunk)
  \/ StderrData
  \/ IdleFire
  \/ GraceFire
  \/ ChildError
  \/ \E code \in RawCodes \cup {ENOENT} : ChildClose(code)
  \/ LogFinish
  \/ LogError
  \/ Drain

\* what the event loop has pending during the ticket loop without the
\* agent doing anything: the next statement of main, a timeout, an event of
\* the log stream or of a failed spawn, the 'close' of a signalled process
Pending ==
  \/ LoopStep
  \/ IdleFire
  \/ GraceFire
  \/ ChildError
  \/ KilledClose
  \/ LogFinish
  \/ LogError
  \/ Drain

\* the event loop runs what is pending; that the agent writes or exits of
\* its own accord is not required
Fairness == WF_vars(Pending)

SpecLive == InitLive /\ [][NextLive]_vars /\ Fairness

\* ------------------------------------------------------------------------
\* Faults of the host: log I/O errors, files that cannot be removed
\* ------------------------------------------------------------------------
InitFault ==
  /\ argv \in TeeArgvs
  /\ fs \in SUBSET FixFiles
  /\ env \in {[slowDisk |-> FALSE, unlinkFails |-> u, transcript |-> FALSE] : u \in BOOLEAN}
  /\ Start

NextFault ==
  \/ Next
  \/ LogFault

SpecFault == InitFault /\ [][NextFault]_vars

\* ------------------------------------------------------------------------
\* Discovery and ordering alone: dry runs over a larger store
\* ------------------------------------------------------------------------
\* stage lists with and without per-stage thresholds, in both orders of
\* --min-priority and --stages; no list at all (the default stages)
SnapshotArgvs ==
  {<<Opt("--dry-run")>>,
   <<Opt("--dry-run"), Opt("--min-priority"), Num(<<"5">>)>>,
   <<Opt("--dry-run"), Opt("--stages"),
     List(<<Tok("fix", Undefined), Tok("implement", Undefined)>>)>>,
   <<Opt("--dry-run"), Opt("--stages"),
     List(<<Tok("implement", Undefined), Tok("fix", Undefined)>>)>>,
   <<Opt("--dry-run"), Opt("--stages"),
     List(<<Tok("review", <<"5">>), Tok("implement", <<"3">>), Tok("fix", Undefined)>>)>>,
   <<Opt("--dry-run"), Opt("--stages"), List(<<Tok("fix", <<"1", "0">>)>>)>>,
   <<Opt("--dry-run"), Opt("--min-priority"), Num(<<"5">>), Opt("--stages"),
     List(<<Tok("fix", <<"3">>), Tok("plan", Undefined)>>)>>,
   <<Opt("--dry-run"), Opt("--stages"),
     List(<<Tok("fix", <<"3">>), Tok("plan", Undefined)>>),
     Opt("--min-priority"), Num(<<"5">>)>>,
   <<Opt("--stages"), List(<<Tok("plan", Undefined), Tok("fix", <<"4">>)>>),
     Opt("--min-priority"), Num(<<"4">>), Opt("--dry-run")>>}

InitSnapshot ==
  /\ argv \in SnapshotArgvs
  /\ fs \in SUBSET StoreFiles
  /\ env = Benign
  /\ Start

NextSnapshot ==
  \/ ParseArgs
  \/ Snapshot

SpecSnapshot == InitSnapshot /\ [][NextSnapshot]_vars

\* ------------------------------------------------------------------------
\* Properties
\* ------------------------------------------------------------------------
LastOf(q) == q[Len(q)]

\* the invocation of the current ticket has returned its code to main
Returned == Len(results) = Len(spawned) /\ Len(results) = i /\ i > 0

\* main is past the exit-code test and goes on to the next ticket
Continuing == pc = "pause"

\* C1: fail-stop.  A non-zero code returned for the ticket at position k is
\* the last code of the run: no spawn and no log file exists for a position
\* behind k, and main is at the exit-code test or has exited with that code.
C1_FailStop ==
  \A k \in 1..Len(results) :
    results[k] # 0 =>
      /\ k = Len(results)
      /\ \A p \in Range(spawned) \cup logs : p <= k
      /\ i = k
      /\ pc \in {"check", "exited"}
      /\ pc = "exited" => driverExit = results[k]

\* a failed ticket with tickets left behind it, and the runner has exited
C1_Witness ==
  /\ pc = "exited"
  /\ results # <<>>
  /\ LastOf(results) # 0
  /\ Len(allTickets) > Len(results)
  /\ Len(spawned) = Len(results)
  /\ logs = 1..Len(results)

\* C2: one ticket at a time, in snapshot order.  No process is alive when
\* the next one is about to be spawned; the k-th spawn is for position k;
\* position k+1 is spawned only after position k returned 0 and the pause
\* was taken; no pause follows the last ticket or a failed one.
C2_Sequential ==
  /\ pc \in {"ticket", "prompt", "runAgent", "pause"} => sup.child # "alive"
  /\ \A k \in 1..Len(spawned) : spawned[k] = k
  /\ Len(spawned) <= Len(pauses) + 1
  /\ \A k \in 1..Len(pauses) :
       /\ pauses[k] = k
       /\ k < Len(allTickets)
       /\ k <= Len(results)
       /\ results[k] = 0

\* a clean run over several tickets: a pause between them, none at the end
C2_Witness ==
  /\ pc = "exited"
  /\ driverExit = 0
  /\ Len(spawned) >= 2
  /\ Len(spawned) = Len(allTickets)
  /\ Len(pauses) = Len(allTickets) - 1

\* C3: snapshot isolation.  Once taken, the list never changes, whatever the
\* agents do to the store; the tickets main takes are the list's entries in
\* order, so a file an agent created is never taken and a deleted ticket is
\* still taken when its turn comes.
C3_SnapshotFixed ==
  [][pc \notin {"parse", "discover"} =>
       /\ allTickets' = allTickets
       /\ \A k \in 1..Len(processed') :
            /\ processed'[k] = allTickets[k]
            /\ path(processed'[k].stage, processed'[k].file) \notin AgentFiles]_vars

\* an agent created implement/5-a.md while implement was a selected stage,
\* a later ticket was taken after that, and the new file was passed over
C3_Witness ==
  /\ path("implement", N_5a) \in fs
  /\ \E k \in 1..Len(opts.stages) : opts.stages[k].stage = "implement"
  /\ Len(processed) >= 2
  /\ pc = "exited"
  /\ driverExit = 0
  /\ T_impl5a \notin Range(processed)

\* C4: no ticket is handed to an agent twice in one run, and no ticket file
\* appears twice in the run order, for every accepted --stages list.
C4_NoTicketTwice ==
  /\ \A a, b \in 1..Len(allTickets) : a # b => allTickets[a] # allTickets[b]
  /\ \A a, b \in 1..Len(processed) : a # b => processed[a] # processed[b]

\* C5: the code the invocation resolves with is the latched result code when
\* a done event was seen, else the raw exit code of 'close' when it is not
\* null, else 1.
C5_ResolvedCode ==
  (pc \in {"await", "check"} /\ sup.promise = "resolved") =>
    /\ hist.closed
    /\ hist.dones # <<>> => /\ sup.resultExitCode = LatchCode([exitCode |-> LastOf(hist.dones)])
                            /\ sup.promiseCode = sup.resultExitCode
    /\ (hist.dones = <<>> /\ hist.rawCode # Null) => sup.promiseCode = hist.rawCode
    /\ (hist.dones = <<>> /\ hist.rawCode = Null) => sup.promiseCode = 1

\* a latched 0 is returned although the process exited with code 2
C5_Witness ==
  /\ pc = "check"
  /\ sup.promise = "resolved"
  /\ hist.dones = <<0>>
  /\ hist.rawCode = 2
  /\ LastOf(results) = 0

\* C6: an invocation whose process the idle timer killed resolves non-zero.
C6_IdleKillNonZero ==
  (hist.idleKill /\ pc \in {"await", "check"} /\ sup.promise = "resolved") =>
    sup.promiseCode # 0

\* C7: after the grace timer killed the process with code c latched, the
\* invocation resolves with exactly c.
C7_GraceKeepsLatched ==
  (hist.graceKill /\ pc \in {"await", "check"} /\ sup.promise = "resolved") =>
    sup.promiseCode = hist.graceCode

\* C8 as stated: after an invocation that a timeout kill ended, main never
\* goes on to a later ticket.
C8_KillStopsBatch ==
  (hist.idleKill \/ hist.graceKill) /\ Returned => ~Continuing

\* C8 as amended: an invocation ended by a timeout kill stops the batch
\* whenever it resolves non-zero, as an agent-reported failure does; main
\* goes on after a kill only when the invocation resolved with 0, which for
\* the post-result hang is the latched code.
C8_KillStopsBatchOnFailure ==
  (hist.idleKill \/ hist.graceKill) /\ Returned =>
    /\ LastOf(results) # 0 =>
         /\ pc \in {"check", "exited"}
         /\ pc = "exited" => driverExit = LastOf(results)
    /\ Continuing => LastOf(results) = 0
    /\ (Continuing /\ hist.graceKill /\ ~hist.idleKill) => 0 \in Range(hist.dones)

\* the grace timer killed an agent that had reported success and hung: the
\* invocation returned the latched 0 and main goes on to the next ticket
C8_Witness ==
  /\ hist.graceKill
  /\ ~hist.idleKill
  /\ hist.dones = <<0>>
  /\ hist.rawCode = Null
  /\ Returned
  /\ Continuing

\* C9: with the claude adapter the result line decides the outcome whatever
\* the raw exit code: error flag true gives code 1 and the batch halts,
\* false gives 0 and the batch goes on.  (With several result lines in one
\* invocation this is stated for lines that agree.)
C9_ResultFlagDecides ==
  (Fmt = "claude" /\ Returned /\ hist.flags # <<>>) =>
    /\ (\A k \in 1..Len(hist.flags) : hist.flags[k]) =>
         /\ LastOf(results) = 1
         /\ pc \in {"check", "exited"}
         /\ pc = "exited" => driverExit = 1
    /\ (\A k \in 1..Len(hist.flags) : ~hist.flags[k]) =>
         /\ LastOf(results) = 0
         /\ pc = "exited" => (driverExit = 0 /\ Len(spawned) = Len(allTickets))

\* error flag false, raw exit code 2, and main goes on to the next ticket
C9_Witness ==
  /\ Fmt = "claude"
  /\ hist.flags = <<FALSE>>
  /\ hist.rawCode = 2
  /\ Returned
  /\ Continuing

\* C10: after a spawn error the invocation never returns a code, also when
\* 'close' follows 'error'; main ends in its catch handler with exit code 1
\* and takes no later ticket.
C10_SpawnErrorRejects ==
  hist.spawnError =>
    /\ sup.promise # "resolved"
    /\ Len(results) < Len(spawned)
    /\ pc \in {"await", "catch", "exited"}
    /\ pc = "exited" => driverExit = 1

\* 'close' followed the 'error' event, the runner exited with tickets left
C10_Witness ==
  /\ hist.spawnError
  /\ hist.closed
  /\ sup.settled
  /\ pc = "exited"
  /\ Len(allTickets) > Len(spawned)

\* the batch stopped early on a ticket: the runner took a ticket for a
\* registered agent and exited with a non-zero code
EarlyStop ==
  /\ pc = "exited"
  /\ driverExit # 0
  /\ processed # <<>>
  /\ agents(opts.agent) # "unknown"

\* C11: every early stop of the batch reports the ticket on which it halted:
\* when the runner has exited, what it printed to standard error holds a
\* message that carries the file name of that ticket and the path of its
\* log, whether the invocation resolved non-zero, was killed by a timer or
\* was rejected after a spawn error.
C11_StopReported ==
  EarlyStop =>
    \E k \in 1..Len(stderr) :
      /\ stderr[k].ticket = LastOf(processed).file
      /\ stderr[k].log = i

\* the options as the loop of parseArgs reads them from the command line
Parsed == parseArgsLoop(argv, 1, DefaultOpts)

\* the command line names an agent the registry does not have
UnknownAgentGiven ==
  /\ ~Parsed.help
  /\ Parsed.agent # NoWord.text
  /\ agents(Parsed.agent) = "unknown"

\* C12: an unknown --agent name is a fatal configuration error whatever the
\* other arguments and the ticket store are (dry run and empty snapshot
\* included): no process is ever spawned and the runner exits with code 1.
C12_UnknownAgentFatal ==
  UnknownAgentGiven =>
    /\ spawned = <<>>
    /\ pc = "exited" => driverExit = 1

\* the runner exited with code 1 on a configuration error
ConfigError ==
  /\ pc = "exited"
  /\ driverExit = 1
  /\ stderr # <<>>
  /\ LastOf(stderr).kind \in {"Unknown stage", "Unknown agent"}

\* C13: when the runner exits with code 1 on a configuration error (unknown
\* stage or unknown agent), no log file has been created.
C13_NoLogOnConfigError == ConfigError => logs = {}

\* On the command lines tried every option word stands where parseArgs reads
\* an option, so what was given can be read off the words.
HelpGiven == \E k \in 1..Len(argv) : argv[k].text = "--help"
DryRunGiven == \E k \in 1..Len(argv) : argv[k].text = "--dry-run"

\* the value of --stages holds a token whose stage is not one of the four
\* processable stages
UnknownStageGiven ==
  \E k \in 1..(Len(argv) - 1) :
    /\ argv[k].text = "--stages"
    /\ \E t \in 1..Len(splitStages(argv[k + 1])) :
         splitStages(argv[k + 1])[t].stage \notin {"fix", "plan", "implement", "review"}

\* C14: with an unknown stage among the --stages tokens and no --help, the
\* runner goes from argument parsing straight to exit code 1: it never
\* reaches ticket discovery, and no snapshot, log directory, log file,
\* instruction file or process exists at any time of the run.
C14_UnknownStageFatal ==
  (UnknownStageGiven /\ ~HelpGiven) =>
    /\ pc \in {"parse", "exited"}
    /\ pc = "exited" => (driverExit = 1 /\ LastOf(stderr).kind = "Unknown stage")
    /\ allTickets = <<>>
    /\ processed = <<>>
    /\ logs = {}
    /\ ~logsDir
    /\ ~instr
    /\ spawned = <<>>

\* --stages fix,bogus with a fix ticket in the store and a registered agent:
\* the runner has exited with code 1
C14_Witness ==
  /\ UnknownStageGiven
  /\ ~HelpGiven
  /\ \E k \in 1..(Len(argv) - 1) :
       argv[k].text = "--stages" /\ splitStages(argv[k + 1])[1].stage = "fix"
  /\ path("fix", N_5a) \in fs
  /\ agents(Parsed.agent) # "unknown"
  /\ ~Parsed.dryRun
  /\ pc = "exited"
  /\ driverExit = 1

\* the text is a decimal integer
IsInteger(chars) == chars # <<>> /\ \A j \in 1..Len(chars) : chars[j] \in Digits

\* bad syntax on the command line: --min-priority with a value that is no
\* integer, a stage:n token whose n is no integer, or --min-priority,
\* --agent or --stages as the last word, without its value
BadSyntaxGiven ==
  \/ \E k \in 1..Len(argv) :
       /\ argv[k].text \in {"--min-priority", "--agent", "--stages"}
       /\ k = Len(argv)
  \/ \E k \in 1..(Len(argv) - 1) :
       /\ argv[k].text = "--min-priority"
       /\ ~IsInteger(argv[k + 1].chars)
  \/ \E k \in 1..(Len(argv) - 1) :
       /\ argv[k].text = "--stages"
       /\ \E t \in Range(splitStages(argv[k + 1])) :
            /\ t.pStr # Undefined
            /\ ~IsInteger(t.pStr)

\* C15: bad CLI syntax is fatal.  With a --min-priority value or a stage:n
\* suffix that is no integer, or an option without its value, no process is
\* ever spawned, the runner exits with code 1, and no ticket is admitted to
\* a snapshot (the bad value is never used as a threshold).
C15_BadSyntaxFatal ==
  (BadSyntaxGiven /\ ~HelpGiven) =>
    /\ spawned = <<>>
    /\ pc = "exited" => driverExit = 1
    /\ allTickets = <<>>

\* ------------------------------------------------------------------------
\* Properties of discovery and ordering
\* ------------------------------------------------------------------------
\* position of a stage in the stage list of the run (no list names a stage
\* twice here), and of a ticket's file in the directory listing
StagePos(stage) == CHOOSE k \in 1..Len(opts.stages) : opts.stages[k].stage = stage
DirPos(t) == CHOOSE k \in 1..Len(DirOrder) : DirOrder[k] = path(t.stage, t.file)

\* C16: the run order is the snapshot (nothing lost, nothing added) sorted
\* by the position of the ticket's stage in the user's stage list, within a
\* stage by descending priority, and for equal priority in the order of
\* discovery; with stages [fix, implement] and the tickets fix/5-a,
\* implement/5-b, fix/3-c it is fix/5-a, fix/3-c, implement/5-b.
C16_RunOrder ==
  LET found == DiscoverAll(fs, opts.stages)
  IN pc = "exited" =>
       /\ Len(allTickets) = Len(found)
       /\ Range(allTickets) = Range(found)
       /\ \A a, b \in 1..Len(allTickets) :
            a < b =>
              LET x == allTickets[a]
                  y == allTickets[b]
              IN /\ StagePos(x.stage) <= StagePos(y.stage)
                 /\ x.stage = y.stage => x.priority >= y.priority
                 /\ (x.stage = y.stage /\ x.priority = y.priority) => DirPos(x) < DirPos(y)
       /\ ( /\ [k \in 1..Len(opts.stages) |-> opts.stages[k].stage] = <<"fix", "implement">>
            /\ Range(found) = {T_fix5a, T_impl5b, T_fix3c} )
          => allTickets = <<T_fix5a, T_fix3c, T_impl5b>>

\* stage order [fix, implement] over fix/5-a, implement/5-b, fix/3-c: a dry
\* run has listed fix/5-a, fix/3-c, implement/5-b
C16_Witness ==
  /\ pc = "exited"
  /\ [k \in 1..Len(opts.stages) |-> opts.stages[k].stage] = <<"fix", "implement">>
  /\ allTickets = <<T_fix5a, T_fix3c, T_impl5b>>

\* the place of a stage in the documented default order
DocumentedPos(stage) ==
  CASE stage = "fix" -> 1
    [] stage = "plan" -> 2
    [] stage = "implement" -> 3
    [] stage = "review" -> 4

StagesGiven == \E k \in 1..Len(argv) : argv[k].text = "--stages"

\* C17: without --stages the tickets run in the documented default stage
\* order fix, plan, implement, review: no ticket of a later stage of that
\* order stands before a ticket of an earlier one.
C17_DefaultOrder ==
  ~StagesGiven =>
    \A a, b \in 1..Len(allTickets) :
      a < b => DocumentedPos(allTickets[a].stage) <= DocumentedPos(allTickets[b].stage)

\* a name that ends in .md and starts with n >= 1 decimal digits and a '-'
PrefixLen(name) ==
  CHOOSE n \in 0..Len(name) :
    /\ \A j \in 1..n : name[j] \in Digits
    /\ n < Len(name) => name[n + 1] \notin Digits
IsTicketName(name) ==
  /\ Len(name) >= 3
  /\ <<name[Len(name) - 2], name[Len(name) - 1], name[Len(name)]>> = <<".", "m", "d">>
  /\ PrefixLen(name) >= 1
  /\ PrefixLen(name) < Len(name)
  /\ name[PrefixLen(name) + 1] = "-"
PrefixValue(name) == Decimal(SubSeq(name, 1, PrefixLen(name)))

\* C18: discovery of one stage with threshold N returns exactly (each once)
\* the entries of the stage directory whose name ends in .md, starts with
\* decimal digits followed by '-', and whose prefix value is >= N, each with
\* that value as its priority; in a dry run these are the listed tickets of
\* the stage.
C18_DiscoveryExact ==
  \A k \in 1..Len(opts.stages) :
    LET stage == opts.stages[k].stage
        N == opts.stages[k].minPriority
        got == discoverTickets(fs, stage, N)
        want == {f \in fs : /\ f.stage = stage
                            /\ IsTicketName(f.file)
                            /\ PrefixValue(f.file) >= N}
    IN /\ {path(stage, got[j].file) : j \in 1..Len(got)} = want
       /\ Len(got) = Cardinality(want)
       /\ \A j \in 1..Len(got) :
            got[j] = [stage |-> stage, file |-> got[j].file,
                      priority |-> PrefixValue(got[j].file)]
       /\ pc = "exited" =>
            {t \in Range(allTickets) : t.stage = stage} = Range(got)

\* stage fix with threshold 4 over a directory that holds tickets above and
\* below it, a two-digit priority, and names that are no tickets
C18_Witness ==
  /\ pc = "exited"
  /\ \E k \in 1..Len(opts.stages) :
       opts.stages[k] = [stage |-> "fix", minPriority |-> 4]
  /\ {path("fix", N_3c), path("fix", N_5a), path("fix", N_10b),
      path("fix", N_README), path("fix", N_5atxt), path("fix", N_7)} \subseteq fs
  /\ path("implement", N_notes1) \in fs
  /\ {t \in Range(allTickets) : t.stage = "fix"} \in
       {{T_fix5a, T_fix10b}, {T_fix5a, T_fix10b, T_fix5d}}

\* the value of --min-priority on the command line, 3 without the option
GlobalMin ==
  IF \E k \in 1..(Len(argv) - 1) : argv[k].text = "--min-priority"
  THEN LET k == CHOOSE j \in 1..(Len(argv) - 1) : argv[j].text = "--min-priority"
       IN Decimal(argv[k + 1].chars)
  ELSE 3

\* the tokens of --stages on the command line, the four stages without it
StageTokens ==
  IF StagesGiven
  THEN LET k == CHOOSE j \in 1..(Len(argv) - 1) : argv[j].text = "--stages"
       IN splitStages(argv[k + 1])
  ELSE [j \in 1..4 |-> Tok(PENDING_STAGES[j], Undefined)]

\* the threshold the command line gives for the k-th stage token
Threshold(k) ==
  IF StageTokens[k].pStr # Undefined THEN Decimal(StageTokens[k].pStr) ELSE GlobalMin

\* C19: every selected stage is filtered with its own threshold: n for a
\* token stage:n, the --min-priority value (3 without one) for a bare name,
\* wherever --min-priority stands relative to --stages; the snapshot holds
\* exactly the tickets of each stage at or above that stage's threshold.
C19_PerStageThreshold ==
  pc # "parse" =>
    /\ Len(opts.stages) = Len(StageTokens)
    /\ \A k \in 1..Len(StageTokens) :
         /\ opts.stages[k].stage = StageTokens[k].stage
         /\ opts.stages[k].minPriority = Threshold(k)
         /\ pc = "exited" =>
              {path(t.stage, t.file) : t \in {u \in Range(allTickets) : u.stage = StageTokens[k].stage}}
                = {f \in fs : /\ f.stage = StageTokens[k].stage
                              /\ IsTicketName(f.file)
                              /\ PrefixValue(f.file) >= Threshold(k)}

\* --stages fix:3,plan --min-priority 5, the option after the list: the fix
\* ticket of priority 3 is in the snapshot, the plan ticket of priority 4 is
\* not
C19_Witness ==
  /\ pc = "exited"
  /\ \E k \in 1..(Len(argv) - 3) :
       argv[k].text = "--stages" /\ argv[k + 2].text = "--min-priority"
  /\ opts.stages = <<[stage |-> "fix", minPriority |-> 3],
                     [stage |-> "plan", minPriority |-> 5]>>
  /\ path("plan", N_4p) \in fs
  /\ T_fix3c \in Range(allTickets)
  /\ T_plan4p \notin Range(allTickets)

\* C20: a dry run (--dry-run on a command line that parseArgs accepts)
\* spawns no process, leaves the ticket files as they are and creates no
\* .logs directory, log file or instruction file; it exits with code 0, and
\* dry runs in a row over the unchanged store print the same list in the
\* same order.
C20_DryRunFrame ==
  (DryRunGiven /\ ~HelpGiven /\ ~UnknownStageGiven) =>
    /\ spawned = <<>>
    /\ sup.child = "none"
    /\ fsOps = 0
    /\ ~logsDir
    /\ logs = {}
    /\ ~instr
    /\ stderr = <<>>
    /\ pc = "exited" => driverExit = 0
    /\ \A a, b \in 1..Len(stdout) : stdout[a] = stdout[b]

\* two dry runs have ended, both printed the same list of several tickets
C20_Witness ==
  /\ DryRunGiven
  /\ pc = "exited"
  /\ driverExit = 0
  /\ fs = InitialFiles
  /\ Len(stdout) = 2
  /\ stdout[1].kind = "would be processed"
  /\ Len(stdout[1].tickets) >= 2
  /\ stdout[2] = stdout[1]

\* ------------------------------------------------------------------------
\* Properties of the exit code and of the supervision of one invocation
\* ------------------------------------------------------------------------
\* every ticket of the snapshot was run and resolved with 0
AllResolvedZero ==
  /\ allTickets # <<>>
  /\ Len(results) = Len(allTickets)
  /\ \A k \in 1..Len(results) : results[k] = 0

\* main ended before the ticket loop: help, dry run, nothing found
NothingToRun ==
  /\ stdout # <<>>
  /\ LastOf(stdout).kind \in {"help", "No tickets found", "would be processed"}

\* C21: the exit code of the runner mirrors the last resolved code.  It is 0
\* exactly when every ticket of the snapshot resolved with 0 or the run was
\* a dry run, help, or found no tickets; after an invocation resolved with a
\* non-zero code the runner exits with that very code.
C21_ExitMirrors ==
  pc = "exited" =>
    /\ driverExit = 0 <=> (AllResolvedZero \/ NothingToRun)
    /\ (results # <<>> /\ LastOf(results) # 0) => driverExit = LastOf(results)

\* the first ticket resolved with the raw code 2, the runner exited with 2
\* and left a ticket unprocessed
C21_Witness ==
  /\ pc = "exited"
  /\ results = <<2>>
  /\ driverExit = 2
  /\ Len(allTickets) = 2

\* the trailer lines among what the log took
Trailers(w) == {k \in 1..Len(w) : w[k].text = <<"Agent exited with code">>}

\* C22: exactly one outcome per invocation.  Once the promise of runAgent
\* is settled its outcome and code never change; a resolved promise carries
\* an integer code; main receives at most one code per spawn; the log takes
\* the trailer line at most once; and once 'close' was handled and the log
\* stream is finished or destroyed the promise is settled, whatever the
\* order of the close, error and timer events was.
C22_OneOutcome ==
  [][/\ (sup.promise \in {"resolved", "rejected"} /\ sup'.promise # "none") =>
          /\ sup'.promise = sup.promise
          /\ sup'.promiseCode = sup.promiseCode
     /\ sup'.promise = "resolved" => sup'.promiseCode # Null
     /\ Len(results') <= Len(spawned')
     /\ Cardinality(Trailers(sup'.written)) <= 1
     /\ (hist'.closed /\ pc' = "await" /\ sup'.logStream \in {"finished", "destroyed"}) =>
          sup'.promise \in {"resolved", "rejected"}]_vars

\* the spawn failed, the idle timer fired and 'close' followed: the promise
\* is rejected and the log took no trailer
C22_Witness ==
  /\ hist.spawnError
  /\ hist.closed
  /\ \E k \in 1..Len(hist.console) : hist.console[k].text = <<"Agent idle">>
  /\ sup.settled
  /\ sup.promise = "rejected"
  /\ Trailers(sup.written) = {}

\* agent output, as opposed to the runner's own messages
IsAgentOutput(item) == item.src \in {"out", "err"}

\* C23: log round trip.  While the log stream of an invocation exists, the
\* normalized stdout texts and raw stderr chunks the log took are, element
\* for element and in the same order, those written to the host's console,
\* also when the log answered writes with backpressure.
C23_RoundTrip ==
  sup.logStream # "none" =>
    SelectSeq(sup.written, IsAgentOutput) = SelectSeq(hist.console, IsAgentOutput)

\* a stdout text and a stderr chunk were teed, a write met backpressure, the
\* stream was resumed and the invocation resolved
C23_Witness ==
  /\ sup.promise = "resolved"
  /\ hist.fullWrites >= 1
  /\ \E k \in 1..Len(sup.written) : sup.written[k].src = "err"
  /\ \E k \in 1..Len(sup.written) : sup.written[k].src = "out"
  /\ Len(hist.console) = Len(sup.written) - 1

\* C24: the temporary instruction file.  It exists when the process is
\* spawned; once runAgent has settled and main has the outcome (a code at
\* the exit-code test, a rejection in the catch handler) the file is gone,
\* unless the host refused the removal; and the outcome main gets is the
\* one the promise settled with, whether the removal failed or not.
C24_InstructionFile ==
  [][/\ Len(spawned') > Len(spawned) => instr'
     /\ (pc = "await" /\ pc' \in {"check", "catch"}) =>
          /\ ~env.unlinkFails => ~instr'
          /\ sup.promise = "resolved" => (pc' = "check" /\ LastOf(results') = sup.promiseCode)
          /\ sup.promise = "rejected" => (pc' = "catch" /\ results' = results)
     /\ (pc' \in {"check", "catch", "pause", "ticket", "prompt", "runAgent"}
           /\ ~env.unlinkFails) => ~instr']_vars

\* the spawn failed, runAgent rejected, and the file is gone when main is
\* in its catch handler
C24_Witness ==
  /\ pc = "catch"
  /\ hist.spawnError
  /\ sup.promise = "rejected"
  /\ ~env.unlinkFails
  /\ ~instr

\* node ended the runner for an uncaught exception
Crashed ==
  /\ pc = "exited"
  /\ stderr # <<>>
  /\ LastOf(stderr).kind = "Uncaught exception"

\* C25: a log I/O error is never escalated.  After the log stream reported
\* an error the runner has not crashed, and once 'close' was handled the
\* invocation is resolved with the code that was determined (the latched
\* code, else the raw code, else 1).
C25_LogErrorNotEscalated ==
  hist.faulted =>
    /\ ~Crashed
    /\ (hist.closed /\ ~hist.spawnError /\ pc \in {"await", "check"}) =>
         /\ sup.promise = "resolved"
         /\ sup.promiseCode = CloseCode(sup.resultExitCode, hist.rawCode)

NoCommitGiven == \E k \in 1..Len(argv) : argv[k].text = "--no-commit"

\* C26: the runner handles commits.  For every ticket whose invocation
\* returned 0, once main has taken the next ticket or has ended, the runner
\* has performed a git commit for it, unless --no-commit was given; with
\* --no-commit it performs none.
C26_CommitPerTicket ==
  /\ NoCommitGiven => commits = <<>>
  /\ ~NoCommitGiven =>
       \A k \in 1..Len(results) :
         (results[k] = 0 /\ (Len(processed) > k \/ pc = "exited")) =>
           k \in Range(commits)

\* C27: the latched exit code is write-once.  While an invocation is being
\* supervised or tested, the latched code is the one of its first done
\* event, and a resolved invocation that saw a done event carries that code.
C27_LatchWriteOnce ==
  (pc \in {"await", "check"} /\ hist.dones # <<>>) =>
    /\ sup.resultExitCode = LatchCode([exitCode |-> hist.dones[1]])
    /\ sup.promise = "resolved" =>
         sup.promiseCode = LatchCode([exitCode |-> hist.dones[1]])

\* a timeout was armed in this step
Armed ==
  /\ sup'.timer # "off"
  /\ sup'.timer # sup.timer \/ sup'.armedAt # sup.armedAt

\* C28: the grace deadline is fixed by the first done event.  Once a done
\* event has been seen, no later event of the invocation arms a timeout
\* again: the grace timer that is pending stays the one armed then.
C28_GraceDeadlineFixed ==
  [][hist.dones # <<>> => ~Armed]_vars

\* the idle timeout fired in this step
IdleFired ==
  /\ sup.timer = "idle"
  /\ sup'.timer = "off"
  /\ ~sup'.settled
  /\ sup'.promise # "none"

\* C29: the idle timer.  At most one timeout is pending at any time; a data
\* event on stdout or stderr received while no result has been seen leaves
\* a timeout armed at that very event; so the idle timeout fires only when
\* no data event came after it was armed.
C29_IdleTimer ==
  [][/\ sup'.stale = 0
     /\ (sup'.nData = sup.nData + 1 /\ sup.resultExitCode = Null) =>
          /\ sup'.timer \in {"idle", "grace"}
          /\ sup'.armedAt = sup'.nData
     /\ IdleFired => sup.armedAt = sup.nData]_vars

\* data came on both occasions the bound allows, then silence: the idle
\* timeout fired and signalled the process
C29_Witness ==
  /\ hist.idleKill
  /\ sup.nData = MaxData
  /\ sup.timer = "off"
  /\ sup.resultExitCode = Null
  /\ ~sup.settled

\* the state of the supervisor: Running, ResultReceived, Exited
Phase(s, h) ==
  IF s.settled THEN "Exited"
  ELSE IF h.dones # <<>> THEN "ResultReceived"
  ELSE "Running"

PhaseOrder == <<"Running", "ResultReceived", "Exited">>
PhasePos(ph) == CHOOSE k \in 1..Len(PhaseOrder) : PhaseOrder[k] = ph

\* C30: the supervisor only moves forward.  Within one invocation the state
\* never goes back; once a done event has been seen the idle timer is never
\* pending again; once settled, the latched code, the cleared timer and a
\* resolved code stay as they are.
C30_PhaseForward ==
  [][(sup.promise # "none" /\ sup'.promise # "none") =>
       /\ PhasePos(Phase(sup', hist')) >= PhasePos(Phase(sup, hist))
       /\ hist'.dones # <<>> => sup'.timer # "idle"
       /\ sup.settled =>
            /\ sup'.settled
            /\ sup'.resultExitCode = sup.resultExitCode
            /\ sup'.timer = "off"
            /\ sup.promise = "resolved" =>
                 (sup'.promise = "resolved" /\ sup'.promiseCode = sup.promiseCode)]_vars

\* a result line, then more output, then the exit: the invocation went
\* through the three states and resolved with the latched code
C30_Witness ==
  /\ hist.dones = <<0>>
  /\ sup.nData = MaxData
  /\ sup.settled
  /\ sup.promise = "resolved"
  /\ sup.promiseCode = 0
  /\ hist.rawCode = 2

\* C31: with an adapter that supplies a line normalizer (claude, cursor),
\* every terminal result object among the lines of an invocation gave a done
\* event whose exit code is 1 when the error flag is set and 0 otherwise.
C31_ResultMakesDone ==
  Fmt \in {"claude", "cursor"} =>
    hist.dones = [k \in 1..Len(hist.flags) |-> IF hist.flags[k] THEN 1 ELSE 0]

\* the texts writeOut passed to the log, in order
IsStdoutText(item) == item.src = "out"
OutTexts(w) ==
  LET sel == SelectSeq(w, IsStdoutText) IN [k \in 1..Len(sel) |-> sel[k].text]

\* the lines of the agent's stdout as the agent wrote them: the terminated
\* ones, and after 'close' the unterminated last one
RawLines ==
  IF hist.closed /\ sup.buf # <<>>
  THEN Append(SubSeq(hist.lines, 1, Len(hist.lines) - 1), sup.buf)
  ELSE hist.lines

\* C32: with the adapter without a normalizer (auggie) every stdout line is
\* written as it is with a newline appended, no done event is produced, the
\* grace timer is never armed, and the resolved code is the raw exit code of
\* the process, or 1 when that is null.
C32_RawPassThrough ==
  (Fmt = "none" /\ sup.logStream # "none") =>
    /\ OutTexts(sup.written) = [k \in 1..Len(RawLines) |-> RawLines[k] \o <<"N">>]
    /\ hist.dones = <<>>
    /\ sup.timer # "grace"
    /\ sup.promise = "resolved" =>
         sup.promiseCode = IF hist.rawCode # Null THEN hist.rawCode ELSE 1

\* C33: on the resolving path (settle ran, no spawn error) the log took
\* everything the handlers wrote up to 'close', the flushed last line
\* included, in that order, and then as its last record the trailer with the
\* code settle was called with; the promise is resolved only once the log
\* stream has reported 'finish' or 'error', and with the trailer's code.
C33_TrailerLast ==
  (sup.settled /\ ~hist.spawnError) =>
    /\ sup.written = Append(hist.console,
                            Item("runner", <<"Agent exited with code">>,
                                 CloseCode(sup.resultExitCode, hist.rawCode)))
    /\ sup.promise \in {"pending", "resolved"}
    /\ sup.promise = "pending" => sup.logStream = "ending"
    /\ sup.promise = "resolved" =>
         /\ sup.logStream \in {"finished", "destroyed"}
         /\ sup.promiseCode = LastOf(sup.written).code

\* stdout text, a stderr chunk and an unterminated last line were received,
\* the process closed, the log was flushed and main has the code
C33_Witness ==
  /\ pc = "check"
  /\ sup.promise = "resolved"
  /\ sup.buf # <<>>
  /\ \E k \in 1..Len(sup.written) : sup.written[k].src = "err"
  /\ Len(sup.written) >= 3
  /\ LastOf(sup.written).code = LastOf(results)

\* C34: backpressure.  A write of stdout text that the log answers with
\* false leaves the child's stdout paused; the 'drain' of the log resumes
\* it; and stdout is paused only while the log has not drained and a
\* listener that resumes it is registered, however many writes of one chunk
\* were answered with false.
C34_Backpressure ==
  [][/\ hist'.fullWrites > hist.fullWrites => sup'.paused
     /\ (sup.needDrain /\ ~sup'.needDrain /\ sup'.logStream # "none") => ~sup'.paused
     /\ sup'.paused => (sup'.needDrain /\ sup'.drainL > 0)]_vars

\* both lines of one chunk met a saturated log, the log drained, and the
\* agent's stdout is read again
C34_Witness ==
  /\ sup.child = "alive"
  /\ sup.nData = 1
  /\ hist.fullWrites = 2
  /\ ~sup.needDrain
  /\ ~sup.paused

\* C35: line buffering does not depend on the chunking.  The lines passed
\* to processLine are those of the whole stdout byte sequence received so
\* far: before 'close' its newline-terminated lines, in order, each once,
\* with the unterminated rest held in buf; after 'close' those lines and
\* then the rest, when there is one, with its trailing blanks removed.
C35_ChunkingIndependent ==
  sup.logStream # "none" =>
    LET segs == split(toString(hist.bytes))
        rest == segs[Len(segs)]
        terminated == SubSeq(segs, 1, Len(segs) - 1)
    IN IF hist.closed
       THEN hist.lines = terminated \o (IF rest # <<>> THEN <<trimEnd(rest)>> ELSE <<>>)
       ELSE hist.lines = terminated /\ sup.buf = rest

\* the types of JSON objects the formatter of an adapter has a branch for
Recognized(fmt) == IF fmt = "claude" THEN {"assistant", "result"} ELSE {"assistant"}

ResultFlushed ==
  /\ hist.closed
  /\ ~hist.spawnError
  /\ sup.logStream # "none"
  /\ sup.buf # <<>>
  /\ Fmt \in {"claude", "cursor"}
  /\ formatStream(Fmt, trimEnd(sup.buf)).done

\* C37: a terminal result object that is the unterminated last line of
\* stdout is normalized by the close handler before the code is resolved:
\* it gives the last done event, the code of that event is latched and is
\* the code the invocation resolves with whatever the raw exit code is, and
\* the grace timer it armed is cleared by settle.
C37_LastLineResult ==
  ResultFlushed =>
    LET ev == formatStream(Fmt, trimEnd(sup.buf))
    IN /\ hist.dones # <<>>
       /\ LastOf(hist.dones) = ev.exitCode
       /\ LastOf(hist.flags) = (ev.exitCode = 1)
       /\ sup.resultExitCode = LatchCode(ev)
       /\ sup.timer = "off"
       /\ sup.stale = 0
       /\ sup.promise = "resolved" => sup.promiseCode = LatchCode(ev)

\* the last line, without newline, reported success, the process exited
\* with code 2, and main got the code 0
C37_Witness ==
  /\ pc = "check"
  /\ Fmt = "claude"
  /\ sup.buf = <<"K">>
  /\ sup.nData = 1
  /\ hist.rawCode = 2
  /\ LastOf(results) = 0

C39_QuietAfterSettle ==
  [][(sup.promise \in {"resolved", "rejected"} /\ sup'.promise = sup.promise) =>
       /\ sup.timer = "off"
       /\ sup'.timer = "off"
       /\ sup'.killed = sup.killed
       /\ sup'.written = sup.written
       /\ sup'.logErr = sup.logErr
       /\ sup'.settled = sup.settled]_vars

====
